---- MODULE Spec2Model ----
(***************************************************************************)
(* AccessMap Ithaca (src/src/App.jsx): the drawing session, the submission *)
(* of a drawn path, the deletion flow and the Firestore snapshot listener  *)
(* of the AccessMap component, as one state machine.                       *)
(*                                                                         *)
(* The component runs on the browser's event loop: every handler runs to   *)
(* its end, or to its next await, before another event is handled.  An     *)
(* action below is one such run.  The continuation of an async handler     *)
(* after an await is an action of its own, enabled while the call it       *)
(* awaits is in flight.  React state set by a handler is read by the next  *)
(* handler (handlers are re-created on every render; the one callback      *)
(* registered once, the map's click handler, reads refs only).             *)
(*                                                                         *)
(* Firestore and Firebase Auth are outside the repository.  They are       *)
(* modelled by what the code relies on: a collection of documents with     *)
(* addDoc / getDoc / deleteDoc, a listener that is handed the whole        *)
(* collection after a change, and an auth state the listener of            *)
(* onAuthStateChanged copies into `user`.                                  *)
(***************************************************************************)
EXTENDS Integers, Sequences, FiniteSets, TLC

(***************************************************************************)
(* Values                                                                  *)
(***************************************************************************)
\* JS null (and undefined) of a string-valued place: user, image, author_uid,
\* segmentToDelete.
Null == "null"

\* The ids of CATEGORIES.
CategoryIds == {"accessible", "partial", "not_accessible"}

\* useState('accessible')
DefaultCategory == "accessible"

\* What the last step reported with alert(); NoAlert when it reported nothing
\* (a handler that did not alert, or a step of the store).
NoAlert == "none"
AlertInsufficientPoints == "Please draw at least 2 points"
AlertUnauthenticated == "Please sign in to save contributions."
AlertForbidden == "You are not the owner of this contribution and cannot delete it."
AlertNotFound == "Contribution not found in cloud - it may have already been deleted."
AlertDeleteFailed == "Failed to delete contribution"
AlertWriteFailed == "Failed to save contribution to cloud."
AlertImageTooLarge == "Image too large (Max 5MB)"
AlertSignInFailed == "Sign-in failed."

(***************************************************************************)
(* Bounds of the model and the inputs the environment draws from           *)
(***************************************************************************)
\* Longest path a drawing session collects (SpecDraw).
MaxPath == 3
\* Documents ever created in the remote collection (SpecSync, SpecDelete).
MaxDocs == 2
\* Remote calls of one kind (addDoc; getDoc/deleteDoc) in flight at once
\* (SpecSync, SpecDelete).
MaxInflight == 2
\* Ticks of the millisecond clock (SpecIds).
MaxClock == 2
\* Maps the Leaflet effect creates (SpecMap).
MaxMaps == 2

\* finishDrawing: currentPath.length < 2
MinPoints == 2

\* Map click coordinates [lat, lng]; lat # lng so that a swap shows.
Points == {<<1, 2>>, <<3, 4>>}
Uids == {"uidA", "uidB"}
Notes == {"", "steep"}
DataUrls == {"data:image/jpeg"}

\* The paths of at most MaxPath clicked points.
BoundedPaths == UNION {[1..n -> Points] : n \in 0..MaxPath}

\* Decoded image sizes: sides below, at and above both caps.
ImageSides == {1, 300, 600, 601, 700, 800, 801, 1000, 1600, 2400}
Images == {[width |-> w, height |-> h] : w, h \in ImageSides}

\* One photo, where the size of the image does not matter.
PhoneImage == [width |-> 1600, height |-> 1200]

VARIABLES
    segments,            \* useState([]): the local segment list
    user,                \* useState(null): the uid of the signed-in user, or Null
    isDrawing,           \* useState(false)
    currentPath,         \* useState([])
    showSubmissionForm,  \* useState(false)
    segmentToDelete,     \* useState(null): the id staged for deletion
    selectedCategory,    \* useState('accessible')
    note,                \* useState('')
    selectedImage,       \* useState(null)
    lastPointRef,        \* useRef(null): <<>> for null, <<p>> for a point
    isDrawingRef,        \* useRef(isDrawing)
    now,                 \* the browser clock read by Date.now() / new Date()
    alertMsg,            \* what the last step reported with alert()
    remote,              \* the 'segments' collection: document number -> data
    nextDoc,             \* number of the next document the collection creates
    snapPending,         \* the listener has a snapshot to deliver
    writes,              \* addDoc calls in flight, each with its awaiting submitSegment
    deletes,             \* handleConfirmDelete continuations in flight
    clicked,             \* history: the points clicked since the last startDrawing
    filters,             \* useState({accessible: true, partial: true, not_accessible: true})
    encoded,             \* the last img.onload: <<>>, or <<[img, canvas]>>
    lastSnapshot,        \* history: <<>>, or <<items>> of the last snapshot delivered
    mapContainerRef,     \* useRef(null): TRUE while the map's div is attached
    mapInstanceRef,      \* useRef(null): NoMap, or the number of the map it holds
    mapsCreated,         \* history: the number of L.map() calls
    mapsRemoved,         \* history: the maps map.remove() was called on, in order
    hasCleanup,          \* a run of the Leaflet effect has returned its cleanup
    clickIgnored,        \* history: a click was ignored since the last startDrawing
    formAdds             \* history: addDoc calls issued from the form now open

vars == <<segments, user, isDrawing, currentPath, showSubmissionForm,
          segmentToDelete, selectedCategory, note, selectedImage, lastPointRef,
          isDrawingRef, now, alertMsg, remote, nextDoc, snapPending, writes,
          deletes, clicked, filters, encoded, lastSnapshot, mapContainerRef,
          mapInstanceRef, mapsCreated, mapsRemoved, hasCleanup, clickIgnored,
          formAdds>>

drawVars == <<isDrawing, currentPath, showSubmissionForm, lastPointRef, isDrawingRef>>
formVars == <<selectedCategory, note, selectedImage>>
storeVars == <<remote, nextDoc, snapPending>>
mapVars == <<mapContainerRef, mapInstanceRef, mapsCreated, mapsRemoved, hasCleanup>>
\* What only the map's effects and the filter toggles write.
widgetVars == <<filters, mapVars>>
\* The history kept of the clicks and of the form, for the properties.
histVars == <<clickIgnored, formAdds>>

\* mapInstanceRef.current === null; the maps L.map() creates are 1, 2, ...
NoMap == 0

\* const MAX_WIDTH = 800; const MAX_HEIGHT = 600;
MAX_WIDTH == 800
MAX_HEIGHT == 600

\* useState({ accessible: true, partial: true, not_accessible: true })
AllFiltersOn == [c \in CategoryIds |-> TRUE]

(***************************************************************************)
(* Helpers                                                                 *)
(***************************************************************************)
RemoveAt(s, i) == [k \in 1..(Len(s) - 1) |-> IF k < i THEN s[k] ELSE s[k + 1]]

\* Date.now().toString()
LocalId(t) == ToString(t)

\* The id Firestore gives document number n; never a Date.now() string.
DocId(n) == "doc" \o ToString(n)

\* new Date()
ClientDate(t) == [t |-> t, kind |-> "Date", by |-> "client"]

\* serverTimestamp(): the sentinel the store replaces at write time.
ServerTimestampSentinel == [t |-> 0, kind |-> "sentinel", by |-> "client"]

\* The Timestamp the store writes for the sentinel.
ServerTimestamp(n) == [t |-> n, kind |-> "Timestamp", by |-> "server"]

(***************************************************************************)
(* The snapshot listener's mapping of a document (App.jsx 68-79)           *)
(***************************************************************************)
\* A stored path entry is one of: an array [lat, lng] ("array"), an object
\* whose lat and lng are numbers ("latlng"), anything else ("other").
\* Mutant: the coordinates stored the wrong way round.
WirePoint_Swapped(p) == [type |-> "latlng", lat |-> p[2], lng |-> p[1]]

WirePoint(p) == [type |-> "latlng", lat |-> p[1], lng |-> p[2]]

\* rawPath.map(pt => ...): <<pair>> for a point that is kept, <<>> for null.
NormalizePoint(pt) ==
    IF pt.type = "array" THEN <<(<<pt.lat, pt.lng>>)>>
    ELSE IF pt.type = "latlng" THEN <<(<<pt.lat, pt.lng>>)>>
    ELSE <<>>

\* Mutant: the kept points come out in reverse order.
RECURSIVE NormalizePath_Reversed(_)
NormalizePath_Reversed(raw) ==
    IF raw = <<>> THEN <<>>
    ELSE NormalizePath_Reversed(Tail(raw)) \o NormalizePoint(Head(raw))

\* rawPath.map(...).filter(Boolean)
RECURSIVE NormalizePath(_)
NormalizePath(raw) ==
    IF raw = <<>> THEN <<>>
    ELSE NormalizePoint(Head(raw)) \o NormalizePath(Tail(raw))

\* data.createdAt && data.createdAt.toDate ? data.createdAt.toDate() : data.createdAt
NormalizeCreatedAt(c) ==
    IF c.kind = "Timestamp" THEN [t |-> c.t, kind |-> "Date", by |-> c.by] ELSE c

\* { ...data, path, createdAt, id: d.id }
NormalizeDoc(n, data) ==
    [data EXCEPT !.path = NormalizePath(data.path),
                 !.createdAt = NormalizeCreatedAt(data.createdAt),
                 !.id = DocId(n)]

\* snapshot.docs.map(...): the documents in the order of their ids.
RECURSIVE SnapshotItems(_, _)
SnapshotItems(r, n) ==
    IF n >= nextDoc THEN <<>>
    ELSE (IF n \in DOMAIN r THEN <<NormalizeDoc(n, r[n])>> ELSE <<>>)
         \o SnapshotItems(r, n + 1)

(***************************************************************************)
(* submitSegment's records (App.jsx 408-426)                               *)
(***************************************************************************)
NewSegment ==
    [note |-> note,
     path |-> currentPath,
     createdAt |-> ClientDate(now),
     id |-> LocalId(now),
     category |-> selectedCategory,
     image |-> selectedImage,
     author_uid |-> user]

FirestorePayload(seg) ==
    [seg EXCEPT !.path = [i \in DOMAIN seg.path |-> WirePoint(seg.path[i])],
                !.createdAt = ServerTimestampSentinel]

\* What the store holds for a payload: the sentinel replaced by its clock.
StoredData(payload, n) == [payload EXCEPT !.createdAt = ServerTimestamp(n)]

(***************************************************************************)
(* Initial state: the component after its first render and the first run   *)
(* of its effects: the map's div is attached and the Leaflet effect has    *)
(* created map number 1 (App.jsx 182-221).                                 *)
(***************************************************************************)
Init ==
    /\ segments = <<>>
    /\ user = Null
    /\ isDrawing = FALSE
    /\ currentPath = <<>>
    /\ showSubmissionForm = FALSE
    /\ segmentToDelete = Null
    /\ selectedCategory = DefaultCategory
    /\ note = ""
    /\ selectedImage = Null
    /\ lastPointRef = <<>>
    /\ isDrawingRef = FALSE
    /\ now = 0
    /\ alertMsg = NoAlert
    /\ remote = <<>>
    /\ nextDoc = 1
    /\ snapPending = TRUE
    /\ writes = <<>>
    /\ deletes = <<>>
    /\ clicked = <<>>
    /\ filters = AllFiltersOn
    /\ encoded = <<>>
    /\ lastSnapshot = <<>>
    /\ mapContainerRef = TRUE
    /\ mapInstanceRef = 1
    /\ mapsCreated = 1
    /\ mapsRemoved = <<>>
    /\ hasCleanup = TRUE
    /\ clickIgnored = FALSE
    /\ formAdds = 0

(***************************************************************************)
(* The drawing session                                                     *)
(***************************************************************************)
\* The effect on [isDrawing] (App.jsx 228-236): what it leaves in the refs
\* once isDrawing has become d.
EffectLastPoint(d, lp) == IF d THEN lp ELSE <<>>

\* "Add Path" (rendered while !isDrawing && !showSubmissionForm).
startDrawing ==
    /\ ~isDrawing /\ ~showSubmissionForm
    /\ isDrawing' = TRUE
    /\ currentPath' = <<>>
    /\ showSubmissionForm' = FALSE
    /\ isDrawingRef' = TRUE
    /\ lastPointRef' = EffectLastPoint(TRUE, <<>>)
    /\ clicked' = <<>>
    /\ clickIgnored' = FALSE
    /\ alertMsg' = NoAlert
    /\ UNCHANGED <<segments, user, segmentToDelete, formVars, now, encoded,
                   lastSnapshot, widgetVars, storeVars, writes, deletes, formAdds>>

\* Mutant: cancelDrawing without setCurrentPath([]).
cancelDrawing_KeepsPath ==
    /\ isDrawing \/ showSubmissionForm
    /\ isDrawing' = FALSE
    /\ showSubmissionForm' = FALSE
    /\ formAdds' = 0
    /\ selectedImage' = Null
    /\ note' = ""
    /\ isDrawingRef' = FALSE
    /\ lastPointRef' = <<>>
    /\ alertMsg' = NoAlert
    /\ UNCHANGED <<segments, user, segmentToDelete, selectedCategory, now,
                   encoded, lastSnapshot, widgetVars, storeVars, writes,
                   deletes, clicked, currentPath, clickIgnored>>

\* "Cancel" (rendered while isDrawing); the form's X and "Discard" (rendered
\* while showSubmissionForm).
cancelDrawing ==
    /\ isDrawing \/ showSubmissionForm
    /\ isDrawing' = FALSE
    /\ currentPath' = <<>>
    /\ showSubmissionForm' = FALSE
    /\ formAdds' = 0
    /\ selectedImage' = Null
    /\ note' = ""
    /\ isDrawingRef' = FALSE
    /\ lastPointRef' = EffectLastPoint(FALSE, <<>>)
    /\ alertMsg' = NoAlert
    /\ UNCHANGED <<segments, user, segmentToDelete, selectedCategory, now,
                   encoded, lastSnapshot, widgetVars, storeVars, writes,
                   deletes, clicked, clickIgnored>>

\* Mutant: finishDrawing without setIsDrawing(false).
finishDrawing_StaysDrawing ==
    /\ isDrawing
    /\ IF Len(currentPath) < MinPoints
       THEN /\ alertMsg' = AlertInsufficientPoints
            /\ UNCHANGED <<showSubmissionForm, formAdds>>
       ELSE /\ showSubmissionForm' = TRUE
            /\ formAdds' = 0
            /\ alertMsg' = NoAlert
    /\ UNCHANGED <<segments, user, segmentToDelete, formVars, now, encoded,
                   lastSnapshot, widgetVars, storeVars, writes, deletes,
                   clicked, clickIgnored, isDrawing, isDrawingRef,
                   lastPointRef, currentPath>>

\* Mutant: finishDrawing without the length check.
finishDrawing_Unchecked ==
    /\ isDrawing
    /\ isDrawing' = FALSE
    /\ showSubmissionForm' = TRUE
    /\ formAdds' = 0
    /\ isDrawingRef' = FALSE
    /\ lastPointRef' = <<>>
    /\ alertMsg' = NoAlert
    /\ UNCHANGED <<segments, user, segmentToDelete, formVars, now, encoded,
                   lastSnapshot, widgetVars, storeVars, writes, deletes,
                   clicked, currentPath, clickIgnored>>

\* "Finish" (rendered while isDrawing).
finishDrawing ==
    /\ isDrawing
    /\ IF Len(currentPath) < MinPoints
       THEN /\ alertMsg' = AlertInsufficientPoints
            /\ UNCHANGED <<drawVars, formAdds>>
       ELSE /\ isDrawing' = FALSE
            /\ showSubmissionForm' = TRUE
            /\ formAdds' = 0
            /\ isDrawingRef' = FALSE
            /\ lastPointRef' = EffectLastPoint(FALSE, lastPointRef)
            /\ alertMsg' = NoAlert
            /\ UNCHANGED currentPath
    /\ UNCHANGED <<segments, user, segmentToDelete, formVars, now, encoded,
                   lastSnapshot, widgetVars, storeVars, writes, deletes,
                   clicked, clickIgnored>>

\* Mutant: the handler without its check of isDrawingRef.
handleMapClickLogic_Unguarded(newPoint) ==
    /\ currentPath' = IF lastPointRef # <<>>
                      THEN Append(currentPath, newPoint)
                      ELSE <<newPoint>>
    /\ lastPointRef' = <<newPoint>>
    /\ clicked' = Append(clicked, newPoint)
    /\ alertMsg' = NoAlert
    /\ UNCHANGED <<segments, user, isDrawing, showSubmissionForm,
                   isDrawingRef, segmentToDelete, formVars, now, encoded,
                   lastSnapshot, widgetVars, storeVars, writes, deletes,
                   histVars>>

\* map.on('click'): a click on the map at newPoint.
handleMapClickLogic(newPoint) ==
    /\ IF ~isDrawingRef
       THEN /\ clickIgnored' = TRUE
            /\ UNCHANGED <<currentPath, lastPointRef, clicked>>
       ELSE /\ currentPath' = IF lastPointRef # <<>>
                              THEN Append(currentPath, newPoint)
                              ELSE <<newPoint>>
            /\ lastPointRef' = <<newPoint>>
            /\ clicked' = Append(clicked, newPoint)
            /\ UNCHANGED clickIgnored
    /\ alertMsg' = NoAlert
    /\ UNCHANGED <<segments, user, isDrawing, showSubmissionForm,
                   isDrawingRef, segmentToDelete, formVars, now, encoded,
                   lastSnapshot, widgetVars, storeVars, writes, deletes, formAdds>>

(***************************************************************************)
(* The submission form                                                     *)
(***************************************************************************)
\* A category button of the form.
setSelectedCategory(c) ==
    /\ showSubmissionForm
    /\ selectedCategory' = c
    /\ alertMsg' = NoAlert
    /\ UNCHANGED <<segments, user, drawVars, segmentToDelete, note,
                   selectedImage, now, encoded, lastSnapshot, widgetVars,
                   storeVars, writes, deletes, clicked, histVars>>

\* The notes textarea.
setNote(n) ==
    /\ showSubmissionForm
    /\ note' = n
    /\ alertMsg' = NoAlert
    /\ UNCHANGED <<segments, user, drawVars, segmentToDelete,
                   selectedCategory, selectedImage, now, encoded,
                   lastSnapshot, widgetVars, storeVars, writes, deletes,
                   clicked, histVars>>

\* img.onload (App.jsx 380-392): the canvas size for a decoded image of
\* img.width x img.height.  `height *= MAX_WIDTH / width` is a product of
\* doubles and the canvas keeps the integer part of what it is given: the
\* integer part of the exact quotient here.
TargetSize(img) ==
    IF img.width > img.height
    THEN IF img.width > MAX_WIDTH
         THEN [width |-> MAX_WIDTH,
               height |-> (img.height * MAX_WIDTH) \div img.width]
         ELSE img
    ELSE IF img.height > MAX_HEIGHT
         THEN [width |-> (img.width * MAX_HEIGHT) \div img.height,
               height |-> MAX_HEIGHT]
         ELSE img

\* The file input, with a file within the size limit, through to img.onload:
\* the upload button is rendered while !selectedImage.  img is the decoded
\* image's size and dataUrl what canvas.toDataURL returns for it.
handleImageUpload(img, dataUrl) ==
    /\ showSubmissionForm /\ selectedImage = Null
    /\ encoded' = <<[img |-> img, canvas |-> TargetSize(img)]>>
    /\ selectedImage' = dataUrl
    /\ alertMsg' = NoAlert
    /\ UNCHANGED <<segments, user, drawVars, segmentToDelete,
                   selectedCategory, note, now, lastSnapshot, widgetVars,
                   storeVars, writes, deletes, clicked, histVars>>

\* The file input with a file over 5 MB: the alert, and nothing is read.
handleImageUploadTooLarge ==
    /\ showSubmissionForm /\ selectedImage = Null
    /\ alertMsg' = AlertImageTooLarge
    /\ UNCHANGED <<segments, user, drawVars, segmentToDelete, formVars, now,
                   encoded, lastSnapshot, widgetVars, storeVars, writes,
                   deletes, clicked, histVars>>

\* The preview's remove button (rendered while selectedImage).
removeImage ==
    /\ showSubmissionForm /\ selectedImage # Null
    /\ selectedImage' = Null
    /\ alertMsg' = NoAlert
    /\ UNCHANGED <<segments, user, drawVars, segmentToDelete,
                   selectedCategory, note, now, encoded, lastSnapshot,
                   widgetVars, storeVars, writes, deletes, clicked, histVars>>

(***************************************************************************)
(* Authentication                                                          *)
(***************************************************************************)
\* "Sign in" (rendered while !user): signInWithPopup resolves and the
\* onAuthStateChanged listener (App.jsx 56-59) sets the user.
signIn(u) ==
    /\ user = Null
    /\ user' = u
    /\ alertMsg' = NoAlert
    /\ UNCHANGED <<segments, drawVars, segmentToDelete, formVars, now,
                   encoded, lastSnapshot, widgetVars, storeVars, writes,
                   deletes, clicked, histVars>>

\* "Sign in" with signInWithPopup rejecting (popup closed, network).
signInFailed ==
    /\ user = Null
    /\ alertMsg' = AlertSignInFailed
    /\ UNCHANGED <<segments, user, drawVars, segmentToDelete, formVars, now,
                   encoded, lastSnapshot, widgetVars, storeVars, writes,
                   deletes, clicked, histVars>>

\* "Sign out" (rendered while user), then the listener's setUser(null).
handleSignOut ==
    /\ user # Null
    /\ user' = Null
    /\ alertMsg' = NoAlert
    /\ UNCHANGED <<segments, drawVars, segmentToDelete, formVars, now,
                   encoded, lastSnapshot, widgetVars, storeVars, writes,
                   deletes, clicked, histVars>>

(***************************************************************************)
(* Submission                                                              *)
(***************************************************************************)
\* Mutant: the reset empties the path and the fields but leaves the form open.
ResetAfterSubmit_KeepsForm ==
    /\ UNCHANGED <<showSubmissionForm, formAdds>>
    /\ currentPath' = <<>>
    /\ note' = ""
    /\ selectedImage' = Null
    /\ selectedCategory' = DefaultCategory
    /\ lastPointRef' = <<>>

\* The lines after the try/catch of submitSegment (App.jsx 433-438).
ResetAfterSubmit ==
    /\ showSubmissionForm' = FALSE
    /\ formAdds' = 0
    /\ currentPath' = <<>>
    /\ note' = ""
    /\ selectedImage' = Null
    /\ selectedCategory' = DefaultCategory
    /\ lastPointRef' = <<>>

\* Mutant: the new entry is put at the head of the list.
submitSegment_Prepends ==
    /\ showSubmissionForm
    /\ IF user = Null
       THEN /\ alertMsg' = AlertUnauthenticated
            /\ UNCHANGED <<segments, writes, formAdds>>
       ELSE /\ segments' = <<NewSegment>> \o segments
            /\ writes' = Append(writes, [payload |-> FirestorePayload(NewSegment),
                                         newSegment |-> NewSegment,
                                         st |-> "pending"])
            /\ formAdds' = formAdds + 1
            /\ alertMsg' = NoAlert
    /\ UNCHANGED <<user, drawVars, segmentToDelete, formVars, now, encoded,
                   lastSnapshot, widgetVars, storeVars, deletes, clicked, clickIgnored>>

\* Mutant: no return after the sign-in alert; the handler runs on to the
\* lines that reset the form.
submitSegment_ResetsWhenSignedOut ==
    /\ showSubmissionForm
    /\ IF user = Null
       THEN /\ alertMsg' = AlertUnauthenticated
            /\ ResetAfterSubmit
            /\ UNCHANGED <<segments, writes, isDrawing, isDrawingRef>>
       ELSE /\ segments' = Append(segments, NewSegment)
            /\ writes' = Append(writes, [payload |-> FirestorePayload(NewSegment),
                                         newSegment |-> NewSegment,
                                         st |-> "pending"])
            /\ formAdds' = formAdds + 1
            /\ alertMsg' = NoAlert
            /\ UNCHANGED <<drawVars, formVars>>
    /\ UNCHANGED <<user, segmentToDelete, now, encoded, lastSnapshot,
                   widgetVars, storeVars, deletes, clicked, clickIgnored>>

\* "Save Contribution" (rendered while showSubmissionForm), up to the await
\* of addDoc.
submitSegment ==
    /\ showSubmissionForm
    /\ IF user = Null
       THEN /\ alertMsg' = AlertUnauthenticated
            /\ UNCHANGED <<segments, writes, formAdds>>
       ELSE /\ segments' = Append(segments, NewSegment)
            /\ writes' = Append(writes, [payload |-> FirestorePayload(NewSegment),
                                         newSegment |-> NewSegment,
                                         st |-> "pending"])
            /\ formAdds' = formAdds + 1
            /\ alertMsg' = NoAlert
    /\ UNCHANGED <<user, drawVars, segmentToDelete, formVars, now, encoded,
                   lastSnapshot, widgetVars, storeVars, deletes, clicked, clickIgnored>>

\* The store commits the i-th addDoc in flight: the document exists from here
\* on, and the listener has a new snapshot to deliver.
addDocCommit(i) ==
    /\ i \in DOMAIN writes /\ writes[i].st = "pending"
    /\ remote' = remote @@ (nextDoc :> StoredData(writes[i].payload, nextDoc))
    /\ nextDoc' = nextDoc + 1
    /\ snapPending' = TRUE
    /\ writes' = [writes EXCEPT ![i].st = "acked"]
    /\ alertMsg' = NoAlert
    /\ UNCHANGED <<segments, user, drawVars, segmentToDelete, formVars, now,
                   encoded, lastSnapshot, widgetVars, deletes, clicked, histVars>>

\* await addDoc(...) resolves: submitSegment runs on to its end.
submitResolved(i) ==
    /\ i \in DOMAIN writes /\ writes[i].st = "acked"
    /\ writes' = RemoveAt(writes, i)
    /\ ResetAfterSubmit
    /\ alertMsg' = NoAlert
    /\ UNCHANGED <<segments, user, isDrawing, isDrawingRef, segmentToDelete,
                   now, encoded, lastSnapshot, widgetVars, storeVars,
                   deletes, clicked, clickIgnored>>

\* Mutant: the catch block rolls the optimistic entry back.
submitRejected_RollsBack(i) ==
    /\ i \in DOMAIN writes /\ writes[i].st = "pending"
    /\ writes' = RemoveAt(writes, i)
    /\ segments' = SelectSeq(segments, LAMBDA x : x # writes[i].newSegment)
    /\ ResetAfterSubmit
    /\ alertMsg' = AlertWriteFailed
    /\ UNCHANGED <<user, isDrawing, isDrawingRef, segmentToDelete, now,
                   encoded, lastSnapshot, widgetVars, storeVars, deletes,
                   clicked, clickIgnored>>

\* await addDoc(...) rejects (the store refuses the write): the catch block
\* reports it and submitSegment runs on to its end.
submitRejected(i) ==
    /\ i \in DOMAIN writes /\ writes[i].st = "pending"
    /\ writes' = RemoveAt(writes, i)
    /\ ResetAfterSubmit
    /\ alertMsg' = AlertWriteFailed
    /\ UNCHANGED <<segments, user, isDrawing, isDrawingRef, segmentToDelete,
                   now, encoded, lastSnapshot, widgetVars, storeVars,
                   deletes, clicked, clickIgnored>>

(***************************************************************************)
(* Deletion                                                                *)
(***************************************************************************)
\* !filters[seg.category] is false: the category has a filter and it is on.
FilterOn(f, c) == c \in DOMAIN f /\ f[c]

\* The layer effect (App.jsx 290-291) draws a segment, and with it the popup
\* holding its Delete button, when its category's filter is on (the filters
\* start all on) and its path is not empty.
IsRendered(seg) == FilterOn(filters, seg.category) /\ seg.path # <<>>

\* Object.values(CATEGORIES).find(c => c.id === seg.category) || {}, then
\* config.color || '#999' and config.label || 'Unknown Category'.
CategoryColor(c) ==
    IF c = "accessible" THEN "#22c55e"
    ELSE IF c = "partial" THEN "#eab308"
    ELSE IF c = "not_accessible" THEN "#ef4444"
    ELSE "#999"

CategoryLabel(c) ==
    IF c = "accessible" THEN "Accessible"
    ELSE IF c = "partial" THEN "Partially Accessible"
    ELSE IF c = "not_accessible" THEN "Not Accessible"
    ELSE "Unknown Category"

\* The polyline and popup the effect adds for a segment it draws.
Polyline(seg) ==
    [id |-> seg.id, path |-> seg.path, color |-> CategoryColor(seg.category),
     label |-> CategoryLabel(seg.category)]

\* segmentsLayerRef's content after the effect of [segments, filters]
\* (App.jsx 285-340): nothing without a map.
SegmentsLayer ==
    IF mapInstanceRef = NoMap THEN <<>>
    ELSE LET shown == SelectSeq(segments, IsRendered)
         IN  [k \in DOMAIN shown |-> Polyline(shown[k])]

\* A checkbox of the filter panel.
toggleFilter(key) ==
    /\ filters' = [filters EXCEPT ![key] = ~filters[key]]
    /\ alertMsg' = NoAlert
    /\ UNCHANGED <<segments, user, drawVars, segmentToDelete, formVars, now,
                   encoded, lastSnapshot, mapVars, storeVars, writes,
                   deletes, clicked, histVars>>

\* window.accessMapDeleteSegment(id), called by the popup of a drawn segment.
accessMapDeleteSegment(id) ==
    /\ \E k \in DOMAIN segments : segments[k].id = id /\ IsRendered(segments[k])
    /\ segmentToDelete' = id
    /\ alertMsg' = NoAlert
    /\ UNCHANGED <<segments, user, drawVars, formVars, now, encoded,
                   lastSnapshot, widgetVars, storeVars, writes, deletes,
                   clicked, histVars>>

\* The modal's "Cancel" (rendered while segmentToDelete).
cancelDelete ==
    /\ segmentToDelete # Null
    /\ segmentToDelete' = Null
    /\ alertMsg' = NoAlert
    /\ UNCHANGED <<segments, user, drawVars, formVars, now, encoded,
                   lastSnapshot, widgetVars, storeVars, writes, deletes,
                   clicked, histVars>>

\* segments.find(s => s.id === segmentToDelete): <<seg>>, or <<>> for undefined.
FindSegment(segs, id) ==
    IF \E k \in DOMAIN segs : segs[k].id = id
    THEN <<segs[CHOOSE k \in DOMAIN segs :
                  /\ segs[k].id = id
                  /\ \A j \in DOMAIN segs : segs[j].id = id => k <= j]>>
    ELSE <<>>

\* Mutant: the check without its !user case.
NotOwner_SignedOutPasses(found, u) ==
    /\ found # <<>>
    /\ found[1].author_uid # Null
    /\ u # Null
    /\ u # found[1].author_uid

\* seg && seg.author_uid && (!user || user.uid !== seg.author_uid)
NotOwner(found, u) ==
    /\ found # <<>>
    /\ found[1].author_uid # Null
    /\ (u = Null \/ u # found[1].author_uid)

\* Mutant: no return after the ownership alert; the deletion goes on.
handleConfirmDelete_NoReturn ==
    /\ segmentToDelete # Null
    /\ deletes' = Append(deletes, [id |-> segmentToDelete, phase |-> "getDoc"])
    /\ IF NotOwner(FindSegment(segments, segmentToDelete), user)
       THEN alertMsg' = AlertForbidden /\ segmentToDelete' = Null
       ELSE alertMsg' = NoAlert /\ UNCHANGED segmentToDelete
    /\ UNCHANGED <<segments, user, drawVars, formVars, now, encoded,
                   lastSnapshot, widgetVars, storeVars, writes, clicked, histVars>>

\* The modal's "Delete" (rendered while segmentToDelete), up to the await of
\* getDoc.
handleConfirmDelete ==
    /\ segmentToDelete # Null
    /\ IF NotOwner(FindSegment(segments, segmentToDelete), user)
       THEN /\ alertMsg' = AlertForbidden
            /\ segmentToDelete' = Null
            /\ UNCHANGED deletes
       ELSE /\ deletes' = Append(deletes, [id |-> segmentToDelete, phase |-> "getDoc"])
            /\ alertMsg' = NoAlert
            /\ UNCHANGED segmentToDelete
    /\ UNCHANGED <<segments, user, drawVars, formVars, now, encoded,
                   lastSnapshot, widgetVars, storeVars, writes, clicked, histVars>>

\* doc(db, 'segments', id) names an existing document.
DocExists(r, id) == \E n \in DOMAIN r : DocId(n) = id

\* The collection without document id; removing a missing document changes
\* nothing and is no error.
WithoutDoc(r, id) == [n \in {m \in DOMAIN r : DocId(m) # id} |-> r[n]]

\* await getDoc(ref) resolves: the continuation reads snap.exists().
deleteGotDoc(i) ==
    /\ i \in DOMAIN deletes /\ deletes[i].phase = "getDoc"
    /\ IF ~DocExists(remote, deletes[i].id)
       THEN /\ alertMsg' = AlertNotFound
            /\ segmentToDelete' = Null
            /\ deletes' = RemoveAt(deletes, i)
       ELSE /\ deletes' = [deletes EXCEPT ![i].phase = "deleteDoc"]
            /\ alertMsg' = NoAlert
            /\ UNCHANGED segmentToDelete
    /\ UNCHANGED <<segments, user, drawVars, formVars, now, encoded,
                   lastSnapshot, widgetVars, storeVars, writes, clicked, histVars>>

\* Mutant: the continuation also filters the segment out of the local list.
deleteDone_RemovesLocally(i) ==
    /\ i \in DOMAIN deletes /\ deletes[i].phase = "deleteDoc"
    /\ remote' = WithoutDoc(remote, deletes[i].id)
    /\ snapPending' = (snapPending \/ DocExists(remote, deletes[i].id))
    /\ segments' = SelectSeq(segments, LAMBDA x : x.id # deletes[i].id)
    /\ segmentToDelete' = Null
    /\ deletes' = RemoveAt(deletes, i)
    /\ alertMsg' = NoAlert
    /\ UNCHANGED <<user, drawVars, formVars, now, encoded, lastSnapshot,
                   widgetVars, nextDoc, writes, clicked, histVars>>

\* The store performs deleteDoc(ref) and the await resolves.
deleteDone(i) ==
    /\ i \in DOMAIN deletes /\ deletes[i].phase = "deleteDoc"
    /\ remote' = WithoutDoc(remote, deletes[i].id)
    /\ snapPending' = (snapPending \/ DocExists(remote, deletes[i].id))
    /\ segmentToDelete' = Null
    /\ deletes' = RemoveAt(deletes, i)
    /\ alertMsg' = NoAlert
    /\ UNCHANGED <<segments, user, drawVars, formVars, now, encoded,
                   lastSnapshot, widgetVars, nextDoc, writes, clicked, histVars>>

\* getDoc or deleteDoc rejects: the catch block (App.jsx 152-158).
deleteFailed(i) ==
    /\ i \in DOMAIN deletes
    /\ alertMsg' = AlertDeleteFailed
    /\ segmentToDelete' = Null
    /\ deletes' = RemoveAt(deletes, i)
    /\ UNCHANGED <<segments, user, drawVars, formVars, now, encoded,
                   lastSnapshot, widgetVars, storeVars, writes, clicked, histVars>>

(***************************************************************************)
(* The snapshot listener and the rest of the world                         *)
(***************************************************************************)
\* Mutant: the callback merges the snapshot into the list instead of
\* replacing it, keeping the entries that carry a client date.
onSnapshot_Merges ==
    /\ snapPending
    /\ segments' = SnapshotItems(remote, 1)
                    \o SelectSeq(segments, LAMBDA x : x.createdAt.by = "client")
    /\ lastSnapshot' = <<SnapshotItems(remote, 1)>>
    /\ snapPending' = FALSE
    /\ alertMsg' = NoAlert
    /\ UNCHANGED <<user, drawVars, segmentToDelete, formVars, now, encoded,
                   widgetVars, remote, nextDoc, writes, deletes, clicked, histVars>>

\* onSnapshot's callback (App.jsx 67-80), handed the collection as it is.
onSnapshot ==
    /\ snapPending
    /\ segments' = SnapshotItems(remote, 1)
    /\ lastSnapshot' = <<SnapshotItems(remote, 1)>>
    /\ snapPending' = FALSE
    /\ alertMsg' = NoAlert
    /\ UNCHANGED <<user, drawVars, segmentToDelete, formVars, now, encoded,
                   widgetVars, remote, nextDoc, writes, deletes, clicked, histVars>>

\* Another client adds a document.
otherClientAdds(data) ==
    /\ remote' = remote @@ (nextDoc :> data)
    /\ nextDoc' = nextDoc + 1
    /\ snapPending' = TRUE
    /\ alertMsg' = NoAlert
    /\ UNCHANGED <<segments, user, drawVars, segmentToDelete, formVars, now,
                   encoded, lastSnapshot, widgetVars, writes, deletes,
                   clicked, histVars>>

\* Another client deletes document n.
otherClientDeletes(n) ==
    /\ n \in DOMAIN remote
    /\ remote' = [m \in DOMAIN remote \ {n} |-> remote[m]]
    /\ snapPending' = TRUE
    /\ alertMsg' = NoAlert
    /\ UNCHANGED <<segments, user, drawVars, segmentToDelete, formVars, now,
                   encoded, lastSnapshot, widgetVars, nextDoc, writes,
                   deletes, clicked, histVars>>

\* A document of a client that stored no author, with a path holding an
\* array entry and an entry that is no point.
LegacyDoc ==
    [note |-> "",
     path |-> <<[type |-> "latlng", lat |-> 1, lng |-> 2],
                [type |-> "other", lat |-> 0, lng |-> 0],
                [type |-> "array", lat |-> 3, lng |-> 4]>>,
     createdAt |-> ServerTimestamp(0),
     id |-> Null,
     category |-> "partial",
     image |-> Null,
     author_uid |-> Null]

\* A document whose category is none of CATEGORIES (written by another
\* version of the client, or by hand in the console).
UnknownCategoryDoc ==
    [note |-> "",
     path |-> <<[type |-> "latlng", lat |-> 1, lng |-> 2],
                [type |-> "latlng", lat |-> 3, lng |-> 4]>>,
     createdAt |-> ServerTimestamp(0),
     id |-> Null,
     category |-> "stairs",
     image |-> Null,
     author_uid |-> Null]

\* A document without path.
EmptyPathDoc ==
    [note |-> "",
     path |-> <<>>,
     createdAt |-> ServerTimestamp(0),
     id |-> Null,
     category |-> "accessible",
     image |-> Null,
     author_uid |-> Null]

\* A document submitted earlier (another session, another device) by uid.
AuthoredDoc(uid) ==
    [note |-> "",
     path |-> <<WirePoint(<<1, 2>>), WirePoint(<<3, 4>>)>>,
     createdAt |-> ServerTimestamp(0),
     id |-> LocalId(0),
     category |-> "accessible",
     image |-> Null,
     author_uid |-> uid]

(***************************************************************************)
(* Specifications.  The component is one state machine; each specification *)
(* below runs it with the inputs and the bounds of one part of it, so that *)
(* the part is explored in full.                                           *)
(***************************************************************************)
\* The one point clicked where the points of a path do not matter.
OnePoint == <<1, 2>>

\* A first contribution: nothing in flight and an empty local list.
FirstContribution == writes = <<>> /\ segments = <<>>

\* The collection has created no document yet.
NoDocYet == nextDoc = 1

\* The drawing session with paths of any points, and one contribution that
\* the store accepts or refuses.
NextDraw ==
    \/ startDrawing
    \/ cancelDrawing
    \/ finishDrawing
    \/ \E p \in Points :
          /\ Len(currentPath) < MaxPath /\ Len(clicked) < MaxPath
          /\ handleMapClickLogic(p)
    \/ signIn("uidA")
    \/ signInFailed
    \/ handleSignOut
    \/ FirstContribution /\ submitSegment
    \/ NoDocYet /\ addDocCommit(1)
    \/ submitResolved(1)
    \/ submitRejected(1)
    \/ onSnapshot

SpecDraw == Init /\ [][NextDraw]_vars

\* The submission form with every value of its fields, and one contribution
\* followed into the collection and back through the listener.
NextSubmit ==
    \/ startDrawing
    \/ cancelDrawing
    \/ finishDrawing
    \/ /\ Len(currentPath) < MinPoints /\ Len(clicked) < MinPoints
       /\ handleMapClickLogic(OnePoint)
    \/ \E c \in CategoryIds : setSelectedCategory(c)
    \/ \E n \in Notes : setNote(n)
    \/ \E d \in DataUrls : handleImageUpload(PhoneImage, d)
    \/ removeImage
    \/ signIn("uidA")
    \/ handleSignOut
    \/ FirstContribution /\ submitSegment
    \/ NoDocYet /\ addDocCommit(1)
    \/ submitResolved(1)
    \/ submitRejected(1)
    \/ onSnapshot
    \/ NoDocYet /\ otherClientAdds(LegacyDoc)
    \/ otherClientDeletes(1)

SpecSubmit == Init /\ [][NextSubmit]_vars

\* Several contributions and several clients: the local list against the
\* collection.
NextSync ==
    \/ startDrawing
    \/ cancelDrawing
    \/ finishDrawing
    \/ /\ Len(currentPath) < MinPoints /\ Len(clicked) < MinPoints
       /\ handleMapClickLogic(OnePoint)
    \/ signIn("uidA")
    \/ handleSignOut
    \/ Len(writes) < MaxInflight /\ Len(segments) < MaxDocs /\ submitSegment
    \/ \E i \in 1..MaxInflight : nextDoc <= MaxDocs /\ addDocCommit(i)
    \/ \E i \in 1..MaxInflight : submitResolved(i)
    \/ \E i \in 1..MaxInflight : submitRejected(i)
    \/ onSnapshot
    \/ nextDoc <= MaxDocs /\ otherClientAdds(LegacyDoc)
    \/ \E n \in 1..MaxDocs : otherClientDeletes(n)

SpecSync == Init /\ [][NextSync]_vars

\* The deletion flow over documents of several authors.
NextDelete ==
    \/ \E u \in Uids : signIn(u)
    \/ handleSignOut
    \/ \E k \in DOMAIN segments : accessMapDeleteSegment(segments[k].id)
    \/ cancelDelete
    \/ Len(deletes) < MaxInflight /\ handleConfirmDelete
    \/ \E i \in 1..MaxInflight : deleteGotDoc(i)
    \/ \E i \in 1..MaxInflight : deleteDone(i)
    \/ \E i \in 1..MaxInflight : deleteFailed(i)
    \/ onSnapshot
    \/ \E d \in {LegacyDoc, AuthoredDoc("uidA")} :
          nextDoc <= MaxDocs /\ otherClientAdds(d)
    \/ \E n \in 1..MaxDocs : otherClientDeletes(n)

SpecDelete == Init /\ [][NextDelete]_vars

\* The i-th handleConfirmDelete in flight takes its next step: the call it
\* awaits settles.
CompleteDelete(i) == deleteGotDoc(i) \/ deleteDone(i) \/ deleteFailed(i)

\* The deletion flow where every remote call issued settles in the end.
SpecDeleteFair ==
    SpecDelete /\ \A i \in 1..MaxInflight : WF_vars(CompleteDelete(i))

\* The segments layer under documents of every kind and every setting of
\* the filters.
NextRender ==
    \/ \E key \in CategoryIds : toggleFilter(key)
    \/ onSnapshot
    \/ /\ nextDoc <= MaxDocs
       /\ \E d \in {LegacyDoc, UnknownCategoryDoc, EmptyPathDoc} : otherClientAdds(d)
    \/ \E n \in 1..MaxDocs : otherClientDeletes(n)
    \/ \E id \in {segments[k].id : k \in DOMAIN segments} : accessMapDeleteSegment(id)
    \/ cancelDelete

SpecRender == Init /\ [][NextRender]_vars

\* submitSegment as the operation submit(path, category, note, image,
\* identity) on arguments of every kind: the form is open on a path of 0 to
\* MaxPath points, the paths shorter than MinPoints included, which
\* finishDrawing itself never hands to the form.
InitSubmitUnit ==
    /\ segments = <<>>
    /\ user \in {Null, "uidA"}
    /\ isDrawing = FALSE
    /\ currentPath \in BoundedPaths
    /\ showSubmissionForm = TRUE
    /\ segmentToDelete = Null
    /\ selectedCategory \in CategoryIds
    /\ note \in Notes
    /\ selectedImage = Null
    /\ lastPointRef = <<>>
    /\ isDrawingRef = FALSE
    /\ now = 0
    /\ alertMsg = NoAlert
    /\ remote = <<>>
    /\ nextDoc = 1
    /\ snapPending = TRUE
    /\ writes = <<>>
    /\ deletes = <<>>
    /\ clicked = currentPath
    /\ filters = AllFiltersOn
    /\ encoded = <<>>
    /\ lastSnapshot = <<>>
    /\ mapContainerRef = TRUE
    /\ mapInstanceRef = 1
    /\ mapsCreated = 1
    /\ mapsRemoved = <<>>
    /\ hasCleanup = TRUE
    /\ clickIgnored = FALSE
    /\ formAdds = 0

NextSubmitUnit ==
    \/ FirstContribution /\ submitSegment
    \/ NoDocYet /\ addDocCommit(1)
    \/ submitResolved(1)
    \/ submitRejected(1)
    \/ onSnapshot
    \/ cancelDrawing
    \/ signIn("uidA")
    \/ handleSignOut

SpecSubmitUnit == InitSubmitUnit /\ [][NextSubmitUnit]_vars

(***************************************************************************)
(* The map widget (App.jsx 182-221).  React runs the effect on mount and   *)
(* its cleanup on unmount; here either may be run at any time, so that the *)
(* guards of both are exercised.                                           *)
(***************************************************************************)
\* React attaches the map's div to mapContainerRef (mount) ...
attachContainer ==
    /\ ~mapContainerRef
    /\ mapContainerRef' = TRUE
    /\ alertMsg' = NoAlert
    /\ UNCHANGED <<segments, user, drawVars, segmentToDelete, formVars, now,
                   encoded, lastSnapshot, filters, mapInstanceRef,
                   mapsCreated, mapsRemoved, hasCleanup, storeVars, writes,
                   deletes, clicked, histVars>>

\* ... and detaches it (unmount).
detachContainer ==
    /\ mapContainerRef
    /\ mapContainerRef' = FALSE
    /\ alertMsg' = NoAlert
    /\ UNCHANGED <<segments, user, drawVars, segmentToDelete, formVars, now,
                   encoded, lastSnapshot, filters, mapInstanceRef,
                   mapsCreated, mapsRemoved, hasCleanup, storeVars, writes,
                   deletes, clicked, histVars>>

\* Mutant: the effect creates a map whether or not it holds one.
leafletInit_Unguarded ==
    /\ IF ~mapContainerRef
       THEN UNCHANGED <<mapInstanceRef, mapsCreated, hasCleanup>>
       ELSE /\ mapsCreated' = mapsCreated + 1
            /\ mapInstanceRef' = mapsCreated + 1
            /\ hasCleanup' = TRUE
    /\ alertMsg' = NoAlert
    /\ UNCHANGED <<segments, user, drawVars, segmentToDelete, formVars, now,
                   encoded, lastSnapshot, filters, mapContainerRef,
                   mapsRemoved, storeVars, writes, deletes, clicked, histVars>>

\* The effect's body: return at once if a map is held or there is no div;
\* otherwise L.map(...), keep it in mapInstanceRef and return the cleanup.
leafletInit ==
    /\ IF mapInstanceRef # NoMap \/ ~mapContainerRef
       THEN UNCHANGED <<mapInstanceRef, mapsCreated, hasCleanup>>
       ELSE /\ mapsCreated' = mapsCreated + 1
            /\ mapInstanceRef' = mapsCreated + 1
            /\ hasCleanup' = TRUE
    /\ alertMsg' = NoAlert
    /\ UNCHANGED <<segments, user, drawVars, segmentToDelete, formVars, now,
                   encoded, lastSnapshot, filters, mapContainerRef,
                   mapsRemoved, storeVars, writes, deletes, clicked, histVars>>

\* The cleanup the effect returned: remove the map held, if any.
leafletCleanup ==
    /\ hasCleanup
    /\ IF mapInstanceRef # NoMap
       THEN /\ mapsRemoved' = Append(mapsRemoved, mapInstanceRef)
            /\ mapInstanceRef' = NoMap
       ELSE UNCHANGED <<mapInstanceRef, mapsRemoved>>
    /\ alertMsg' = NoAlert
    /\ UNCHANGED <<segments, user, drawVars, segmentToDelete, formVars, now,
                   encoded, lastSnapshot, filters, mapContainerRef,
                   mapsCreated, hasCleanup, storeVars, writes, deletes,
                   clicked, histVars>>

\* map.on('click', e => handleMapClickLogic(e.latlng)): a click on the map
\* held.
mapClick(p) ==
    /\ mapInstanceRef # NoMap
    /\ handleMapClickLogic(p)

\* The millisecond clock behind Date.now() advances.
tick ==
    /\ now' = now + 1
    /\ alertMsg' = NoAlert
    /\ UNCHANGED <<segments, user, drawVars, segmentToDelete, formVars,
                   encoded, lastSnapshot, widgetVars, storeVars, writes,
                   deletes, clicked, histVars>>

\* Contributions submitted while the clock runs: Save pressed again before
\* the form is gone, or a new path submitted, in the same millisecond or a
\* later one.
NextIds ==
    \/ startDrawing
    \/ cancelDrawing
    \/ finishDrawing
    \/ /\ Len(currentPath) < MinPoints
       /\ handleMapClickLogic(OnePoint)
    \/ signIn("uidA")
    \/ /\ Len(writes) < MaxInflight
       /\ Len(segments) < MaxDocs
       /\ submitSegment
    \/ \E i \in 1..MaxInflight :
          \/ nextDoc <= MaxDocs /\ addDocCommit(i)
          \/ submitResolved(i)
          \/ submitRejected(i)
    \/ onSnapshot
    \/ now < MaxClock /\ tick

SpecIds == Init /\ [][NextIds]_vars

\* The map created, removed and created again, with a drawing session
\* clicking on it.
NextMap ==
    \/ attachContainer
    \/ detachContainer
    \/ mapsCreated < MaxMaps /\ leafletInit
    \/ leafletCleanup
    \/ startDrawing
    \/ cancelDrawing
    \/ finishDrawing
    \/ /\ Len(currentPath) < MinPoints
       /\ mapClick(OnePoint)
    \/ \E key \in CategoryIds : toggleFilter(key)

SpecMap == Init /\ [][NextMap]_vars

\* The image encoder on images of every size of Images, from the form of a
\* finished path.
NextImage ==
    \/ startDrawing
    \/ cancelDrawing
    \/ finishDrawing
    \/ /\ Len(currentPath) < MinPoints
       /\ handleMapClickLogic(OnePoint)
    \/ \E img \in Images : \E d \in DataUrls : handleImageUpload(img, d)
    \/ handleImageUploadTooLarge
    \/ removeImage

SpecImage == Init /\ [][NextImage]_vars

(***************************************************************************)
(* Properties                                                              *)
(***************************************************************************)
\* Every variable but alertMsg, and but the named ones in the tuples below.
allButAlert == <<segments, user, drawVars, segmentToDelete, formVars, now,
                 encoded, lastSnapshot, widgetVars, storeVars, writes,
                 deletes, clicked, histVars>>

\* The ids of the local list.
LocalIds == {segments[k].id : k \in DOMAIN segments}

\* An entry whose id is the id of no document of the collection: an entry
\* submitSegment appended.
Provisional(seg) == \A n \in 1..(nextDoc - 1) : seg.id # DocId(n)

\* The entries of a stored path that are points, in order.
KeptPoints(raw) == SelectSeq(raw, LAMBDA pt : pt.type \in {"array", "latlng"})

\* C1 (SpecDraw): while the session is Active, the in-progress path is
\* exactly the sequence of the points clicked since startDrawing, in click
\* order, duplicates kept.
C1_PathIsClickSequence == isDrawing => currentPath = clicked

\* C2 (SpecDraw): finishDrawing with fewer than 2 points reports "Please draw
\* at least 2 points" and changes nothing else: the session stays Active, the
\* path is as it was, the form is not opened.
C2_FinishTooShortChangesNothing ==
    [][(isDrawing /\ Len(currentPath) < MinPoints /\ finishDrawing)
          => /\ alertMsg' = AlertInsufficientPoints
             /\ isDrawing' /\ ~showSubmissionForm'
             /\ currentPath' = currentPath
             /\ UNCHANGED allButAlert]_vars

C2_Witness ==
    /\ alertMsg = AlertInsufficientPoints
    /\ isDrawing /\ ~showSubmissionForm
    /\ Len(currentPath) = 1

\* C3 (SpecDraw): finishDrawing with 2 or more points leaves Active and
\* opens the submission form with the path intact; every cancelDrawing and
\* every startDrawing leaves the path empty.
C3_FinishThenEmptyPath ==
    [][/\ (isDrawing /\ Len(currentPath) >= MinPoints /\ finishDrawing)
            => /\ ~isDrawing' /\ showSubmissionForm'
               /\ currentPath' = currentPath
               /\ alertMsg' = NoAlert
       /\ (cancelDrawing \/ startDrawing) => currentPath' = <<>>]_vars

C3_Witness ==
    /\ showSubmissionForm /\ ~isDrawing
    /\ Len(currentPath) >= MinPoints
    /\ currentPath = clicked

\* C4 (SpecDelete): handleConfirmDelete on a segment of the local list goes
\* on to the store (no ownership alert, a getDoc issued) iff the segment's
\* author_uid is unset or equals the uid of the signed-in user.
C4_OwnershipCheck ==
    [][(segmentToDelete # Null /\ segmentToDelete \in LocalIds /\ handleConfirmDelete)
          => LET seg == FindSegment(segments, segmentToDelete)[1]
                 permitted ==
                     /\ alertMsg' # AlertForbidden
                     /\ deletes' = Append(deletes, [id |-> segmentToDelete,
                                                   phase |-> "getDoc"])
             IN  permitted <=> (seg.author_uid = Null \/ seg.author_uid = user)]_vars

\* Signed out, the deletion of a segment without author has gone on to the
\* store.
C4_Witness ==
    /\ user = Null
    /\ segmentToDelete \in LocalIds
    /\ FindSegment(segments, segmentToDelete)[1].author_uid = Null
    /\ deletes # <<>>
    /\ deletes[Len(deletes)] = [id |-> segmentToDelete, phase |-> "getDoc"]

\* The segment staged for deletion is in the local list, has an author, and
\* the author is not the signed-in user (or nobody is signed in).
StagedIsForeign ==
    /\ segmentToDelete # Null
    /\ segmentToDelete \in LocalIds
    /\ LET seg == FindSegment(segments, segmentToDelete)[1]
       IN  seg.author_uid # Null /\ seg.author_uid # user

\* C5 as claimed (SpecDelete): a forbidden handleConfirmDelete alerts, issues
\* no remote call and leaves the local list, the collection and the staged
\* id unchanged.
C5_ForbiddenLeavesStagedId ==
    [][(StagedIsForeign /\ handleConfirmDelete)
          => /\ alertMsg' = AlertForbidden
             /\ UNCHANGED <<segments, remote, deletes>>
             /\ segmentToDelete' = segmentToDelete]_vars

\* C5 as amended (SpecDelete): a forbidden handleConfirmDelete alerts,
\* issues no remote call, leaves the local list and the collection unchanged,
\* and clears the staged id (the confirmation modal closes).
C5_ForbiddenClearsStagedId ==
    [][(StagedIsForeign /\ handleConfirmDelete)
          => /\ alertMsg' = AlertForbidden
             /\ UNCHANGED <<segments, remote, nextDoc, snapPending, deletes,
                            writes, user, drawVars, formVars, now, encoded,
                            lastSnapshot, widgetVars, clicked, histVars>>
             /\ segmentToDelete' = Null]_vars

C5_Witness ==
    /\ alertMsg = AlertForbidden
    /\ segmentToDelete = Null
    /\ \E k \in DOMAIN segments :
          segments[k].author_uid # Null /\ segments[k].author_uid # user

\* C6 (SpecSubmit): submitSegment with nobody signed in reports "Please sign
\* in" and changes nothing else: no local entry, no addDoc, and the form, its
\* fields and the path as they were.
C6_UnauthenticatedSubmitChangesNothing ==
    [][(showSubmissionForm /\ user = Null /\ submitSegment)
          => /\ alertMsg' = AlertUnauthenticated
             /\ segments' = segments
             /\ writes' = writes
             /\ remote' = remote
             /\ showSubmissionForm'
             /\ UNCHANGED <<currentPath, selectedCategory, note, selectedImage>>
             /\ UNCHANGED allButAlert]_vars

C6_Witness ==
    /\ alertMsg = AlertUnauthenticated
    /\ user = Null
    /\ showSubmissionForm
    /\ Len(currentPath) >= MinPoints
    /\ note # "" /\ selectedImage # Null /\ selectedCategory # DefaultCategory

\* C7 (SpecSubmit): (1) submitSegment by a signed-in user appends exactly one
\* entry carrying the path, category, note, image and the user's uid, with
\* the write still in flight and the collection untouched; (2) the document
\* the store creates for that write carries the same values, the path as
\* {lat, lng} objects, and the store's timestamp; (3) every notification
\* gives, for each such document in the collection, a local entry with the
\* document's id, the path as pairs again, the same category, note, image
\* and author, and the store's timestamp as a date.
C7_OptimisticThenConfirmed ==
    [][/\ (showSubmissionForm /\ user # Null /\ submitSegment)
            => /\ Len(segments') = Len(segments) + 1
               /\ SubSeq(segments', 1, Len(segments)) = segments
               /\ LET e == segments'[Len(segments')]
                  IN  /\ e.path = currentPath
                      /\ e.category = selectedCategory
                      /\ e.note = note
                      /\ e.image = selectedImage
                      /\ e.author_uid = user
                      /\ e.createdAt.by = "client"
                      /\ Len(writes') = Len(writes) + 1
                      /\ writes'[Len(writes')].newSegment = e
                      /\ writes'[Len(writes')].st = "pending"
               /\ remote' = remote
       /\ \A i \in DOMAIN writes :
             addDocCommit(i)
               => LET d == remote'[nextDoc]
                      e == writes[i].newSegment
                  IN  /\ nextDoc \notin DOMAIN remote
                      /\ Len(d.path) = Len(e.path)
                      /\ \A j \in DOMAIN e.path :
                            /\ d.path[j].type = "latlng"
                            /\ d.path[j].lat = e.path[j][1]
                            /\ d.path[j].lng = e.path[j][2]
                      /\ d.category = e.category
                      /\ d.note = e.note
                      /\ d.image = e.image
                      /\ d.author_uid = e.author_uid
                      /\ d.createdAt.kind = "Timestamp"
                      /\ d.createdAt.by = "server"
       /\ onSnapshot
            => \A n \in DOMAIN remote :
                  (\A j \in DOMAIN remote[n].path : remote[n].path[j].type = "latlng")
                    => \E k \in DOMAIN segments' :
                          LET d == remote[n]
                              e == segments'[k]
                          IN  /\ e.id = DocId(n)
                              /\ Len(e.path) = Len(d.path)
                              /\ \A j \in DOMAIN d.path :
                                    e.path[j] = <<d.path[j].lat, d.path[j].lng>>
                              /\ e.category = d.category
                              /\ e.note = d.note
                              /\ e.image = d.image
                              /\ e.author_uid = d.author_uid
                              /\ e.createdAt.kind = "Date"
                              /\ e.createdAt.by = "server"]_vars

\* The local list holds, under the document's id, a contribution of uidA
\* with a note, an image and a category of the form.
C7_Witness ==
    \E k \in DOMAIN segments :
       /\ segments[k].id = DocId(1)
       /\ segments[k].author_uid = "uidA"
       /\ segments[k].path = <<OnePoint, OnePoint>>
       /\ segments[k].note = "steep"
       /\ segments[k].image # Null
       /\ segments[k].category = "not_accessible"
       /\ segments[k].createdAt.by = "server"

\* C8 (SpecSync): a rejected write is reported and its continuation leaves
\* the local list as it is; an entry submitSegment appended stays in the list
\* through every step that is not a notification; and after a notification
\* the list holds no such entry.
C8_FailedWriteKeepsEntryUntilSnapshot ==
    [][/\ \A i \in DOMAIN writes :
             submitRejected(i)
               => alertMsg' = AlertWriteFailed /\ segments' = segments
       /\ ~onSnapshot
            => \A k \in DOMAIN segments :
                  Provisional(segments[k])
                    => k \in DOMAIN segments' /\ segments'[k] = segments[k]
       /\ onSnapshot
            => \A k \in DOMAIN segments' : ~Provisional(segments'[k])]_vars

\* The failure has been reported and the entry is still in the list.
C8_Witness ==
    /\ alertMsg = AlertWriteFailed
    /\ \E k \in DOMAIN segments :
          Provisional(segments[k]) /\ segments[k].author_uid = "uidA"

\* C9 (SpecSync): after a notification the local list is the collection's
\* documents, one entry each under the document's id, each normalized (the
\* path entries that are points as pairs, the timestamp as a date), whatever
\* the list held before.
C9_SnapshotReplacesLocalSet ==
    [][onSnapshot
          => /\ Len(segments') = Cardinality(DOMAIN remote)
             /\ \A k \in DOMAIN segments' :
                   \E n \in DOMAIN remote : segments'[k].id = DocId(n)
             /\ \A n \in DOMAIN remote :
                   \E k \in DOMAIN segments' :
                      LET d == remote[n]
                          e == segments'[k]
                          kept == KeptPoints(d.path)
                      IN  /\ e.id = DocId(n)
                          /\ e.path = [j \in 1..Len(kept) |->
                                          <<kept[j].lat, kept[j].lng>>]
                          /\ e.category = d.category
                          /\ e.note = d.note
                          /\ e.image = d.image
                          /\ e.author_uid = d.author_uid
                          /\ e.createdAt = [t |-> d.createdAt.t, kind |-> "Date",
                                            by |-> "server"]
             /\ \A k \in DOMAIN segments' : ~Provisional(segments'[k])]_vars

\* A write is in flight, so its entry was appended, and a notification has
\* left only documents of the collection in the list.
C9_Witness ==
    /\ ~snapPending
    /\ writes # <<>>
    /\ Len(segments) = 2
    /\ \A k \in DOMAIN segments : ~Provisional(segments[k])

C11_MissingAtRemovalIsNotFound ==
    [][\A i \in DOMAIN deletes :
          (~DocExists(remote, deletes[i].id) /\ deleteDone(i))
             => alertMsg' = AlertNotFound]_vars

\* A segment as submitSegment builds it, holding path p.
SegmentWithPath(p) ==
    [note |-> "", path |-> p, createdAt |-> ClientDate(0), id |-> LocalId(0),
     category |-> DefaultCategory, image |-> Null, author_uid |-> "uidA"]

\* The round trip of every path of at most MaxPath points, the empty path and
\* the paths of one point included.
RoundTripOfBoundedPaths ==
    \A p \in BoundedPaths :
       LET w == FirestorePayload(SegmentWithPath(p)).path
       IN  /\ Len(w) = Len(p)
           /\ \A j \in DOMAIN p : w[j].lat = p[j][1] /\ w[j].lng = p[j][2]
           /\ NormalizePath(w) = p
           /\ NormalizeDoc(1, StoredData(FirestorePayload(SegmentWithPath(p)), 1)).path = p

\* C12 (SpecDraw): a path of [lat, lng] pairs, converted to {lat, lng}
\* objects as submitSegment does and normalized as the snapshot listener
\* does, is the original sequence of pairs: same length, order, coordinates.
\* Stated of every path of at most MaxPath points and of every write that
\* submitSegment has issued.
C12_PathRoundTrip ==
    /\ RoundTripOfBoundedPaths
    /\ \A i \in DOMAIN writes :
          LET p == writes[i].newSegment.path
              w == writes[i].payload.path
          IN  /\ Len(w) = Len(p)
              /\ \A j \in DOMAIN p : w[j].lat = p[j][1] /\ w[j].lng = p[j][2]
              /\ NormalizePath(w) = p
              /\ NormalizeDoc(nextDoc, StoredData(writes[i].payload, nextDoc)).path = p

\* A submitted path of three points that are not all the same, with a
\* repeated point, on its way to the store.
C12_Witness ==
    \E i \in DOMAIN writes :
       LET p == writes[i].newSegment.path
       IN  /\ Len(p) = 3
           /\ p[1] # p[2]
           /\ p[3] = p[1]
           /\ writes[i].payload.path[2] = [type |-> "latlng", lat |-> p[2][1], lng |-> p[2][2]]

\* C13 (SpecImage): the canvas the encoder draws a decoded image on is at
\* most MAX_WIDTH wide and at most MAX_HEIGHT high, and an image already
\* within both has the canvas of its own size.
C13_TargetWithinCap ==
    encoded # <<>>
      => LET img == encoded[1].img
             canvas == encoded[1].canvas
         IN  /\ canvas.width <= MAX_WIDTH
             /\ canvas.height <= MAX_HEIGHT
             /\ (img.width <= MAX_WIDTH /\ img.height <= MAX_HEIGHT) => canvas = img

\* C14 (SpecSubmit): cancelDrawing, from Active or from the open form, ends
\* in Idle with the path, the note, the image and the category selection
\* discarded: the category is back to its default.
C14_CancelDiscardsForm ==
    [][((isDrawing \/ showSubmissionForm) /\ cancelDrawing)
          => /\ ~isDrawing' /\ ~showSubmissionForm'
             /\ currentPath' = <<>>
             /\ note' = ""
             /\ selectedImage' = Null
             /\ selectedCategory' = DefaultCategory]_vars

\* C15 (SpecRender): a segment of the local list with a path and a category
\* that is none of CATEGORIES is drawn on the map, grey and labelled
\* 'Unknown Category', whatever the filters are.
C15_UnknownCategoryDrawn ==
    \A k \in DOMAIN segments :
       (segments[k].path # <<>> /\ segments[k].category \notin CategoryIds)
         => \E j \in DOMAIN SegmentsLayer :
               /\ SegmentsLayer[j].id = segments[k].id
               /\ SegmentsLayer[j].color = "#999"
               /\ SegmentsLayer[j].label = "Unknown Category"

C17_LocalIdsDistinct ==
    \A j, k \in DOMAIN segments :
       j # k => segments[j].id # segments[k].id

\* The maps created and not removed.
LiveMaps == (1..mapsCreated) \ {mapsRemoved[i] : i \in DOMAIN mapsRemoved}

\* C18 (SpecMap): at most one map exists at a time and it is the one in
\* mapInstanceRef (the effect creates none while one is held); every removal
\* is of a map that was created and no map is removed twice (a cleanup
\* without a map removes nothing).
C18_MapAcquiredAndReleasedOnce ==
    /\ LiveMaps = (IF mapInstanceRef = NoMap THEN {} ELSE {mapInstanceRef})
    /\ \A i \in DOMAIN mapsRemoved : mapsRemoved[i] \in 1..mapsCreated
    /\ \A i, j \in DOMAIN mapsRemoved : i # j => mapsRemoved[i] # mapsRemoved[j]

\* Two maps were created, one after the other, and both have been removed.
C18_Witness ==
    /\ mapsCreated = 2
    /\ mapsRemoved = <<1, 2>>
    /\ mapInstanceRef = NoMap
    /\ hasCleanup

\* s with its first n entries dropped.
DropFirst(s, n) == SubSeq(s, n + 1, Len(s))

\* C19 as claimed (SpecSync): once a snapshot has been delivered, the local
\* list is the normalized content of the last snapshot delivered.
C19_LocalSetIsLastSnapshot ==
    lastSnapshot # <<>> => segments = lastSnapshot[1]

\* C19 as amended (SpecSync): the local list is changed only by the
\* listener's replacement and by submitSegment appending its new entry; so,
\* once a snapshot has been delivered, the list is the normalized content of
\* the last snapshot followed by the entries submitSegment has appended since.
C19_SnapshotThenAppended ==
    [][/\ segments' # segments
            => \/ onSnapshot
               \/ /\ user # Null /\ submitSegment
                  /\ segments' = Append(segments, NewSegment)
       /\ onSnapshot => segments' = lastSnapshot'[1]
       /\ lastSnapshot' # <<>>
            => /\ Len(lastSnapshot'[1]) <= Len(segments')
               /\ SubSeq(segments', 1, Len(lastSnapshot'[1])) = lastSnapshot'[1]
               /\ LET added == DropFirst(segments', Len(lastSnapshot'[1]))
                  IN  \A k \in DOMAIN added :
                         /\ added[k].createdAt.by = "client"
                         /\ added[k].author_uid # Null]_vars

\* A snapshot with a document has been delivered and submitSegment has
\* appended an entry since.
C19_Witness ==
    /\ lastSnapshot # <<>>
    /\ lastSnapshot[1] # <<>>
    /\ Len(segments) = Len(lastSnapshot[1]) + 1
    /\ segments[Len(segments)].createdAt.by = "client"
    /\ writes # <<>>

\* C20 (SpecDraw): whenever the submission form is open the path held has at
\* least 2 points; hence every entry submitSegment has appended, every write
\* it has issued and every document stored for one has a path of at least 2
\* points, under every interleaving of start, click, finish, cancel, submit
\* and the completions of submits.
C20_FormHoldsFinishedPath ==
    /\ showSubmissionForm => Len(currentPath) >= MinPoints
    /\ \A k \in DOMAIN segments :
          segments[k].createdAt.by = "client" => Len(segments[k].path) >= MinPoints
    /\ \A i \in DOMAIN writes :
          /\ Len(writes[i].newSegment.path) >= MinPoints
          /\ Len(writes[i].payload.path) >= MinPoints
    /\ \A n \in DOMAIN remote : Len(remote[n].path) >= MinPoints

\* A new path has been finished while an earlier submit is still in flight:
\* the form is open on it and the earlier entry is in the list.
C20_Witness ==
    /\ showSubmissionForm
    /\ Len(currentPath) = MinPoints
    /\ writes # <<>>
    /\ segments # <<>>
    /\ currentPath # writes[1].newSegment.path

\* C21 (SpecDraw): a map click received while the session is not Active
\* (Idle, or the submission form open on a finished path) leaves the path
\* and every other piece of the component's state unchanged.
C21_ClickOutsideActiveIgnored ==
    [][\A p \in Points :
          (~isDrawing /\ handleMapClickLogic(p))
            => UNCHANGED <<segments, user, drawVars, segmentToDelete,
                           formVars, now, encoded, lastSnapshot, widgetVars,
                           storeVars, writes, deletes, clicked, formAdds>>]_vars

\* The form is open on the finished path of two clicked points, a click has
\* been ignored since the path was started, and a submit is in flight.
C21_Witness ==
    /\ clickIgnored
    /\ showSubmissionForm /\ ~isDrawing
    /\ Len(currentPath) = MinPoints
    /\ currentPath = clicked
    /\ writes # <<>>

\* C22 (SpecDraw): the completion of a submit's write, resolved or rejected,
\* that arrives while a later drawing session is Active leaves that
\* session's path, note, image and category selection as they are.
C22_CompletionLeavesNewSession ==
    [][\A i \in DOMAIN writes :
          (isDrawing /\ (submitResolved(i) \/ submitRejected(i)))
            => UNCHANGED <<currentPath, note, selectedImage, selectedCategory>>]_vars

\* C23 (SpecSync): from one finished path, that is from the form since it
\* opened, submitSegment issues at most one addDoc and appends at most one
\* entry to the local list, also when Save is pressed again while the first
\* write is in flight.
C23_OneAddPerFinishedPath == formAdds <= 1

\* C24, second part (SpecDelete): the completion of a handleConfirmDelete
\* (not found, deleted, or failed) that arrives while a different id is
\* staged, one the user staged after that confirmation, leaves the staged id
\* as it is.
C24_CompletionKeepsLaterStagedId ==
    [][\A i \in DOMAIN deletes :
          ( /\ segmentToDelete # Null
            /\ segmentToDelete # deletes[i].id
            /\ (deleteGotDoc(i) \/ deleteDone(i) \/ deleteFailed(i)) )
            => segmentToDelete' = segmentToDelete]_vars

\* C24, first part (SpecDeleteFair): once a handleConfirmDelete has gone on
\* to the store, the staged id is cleared in the end, whatever the outcome
\* (not found, deleted, failed), provided every remote call settles.  (The
\* Forbidden outcome clears it in the step itself, C5.)
C24_StagedIdEventuallyCleared == (deletes # <<>>) ~> (segmentToDelete = Null)

\* C25 (SpecDraw): the session is never both Active and pending submission:
\* isDrawing and showSubmissionForm are never both true, under every
\* interleaving of start, click, finish, cancel, submit and the completions
\* of submits.
C25_DrawingAndFormExclusive == ~(isDrawing /\ showSubmissionForm)

\* A later session is Active, with a point clicked, when the write of an
\* earlier submit is reported as failed.
C25_Witness ==
    /\ isDrawing /\ ~showSubmissionForm
    /\ alertMsg = AlertWriteFailed
    /\ clicked # <<>>
    /\ segments # <<>>

====
